---- MODULE Spec2Model ----
(***************************************************************************)
(* Notification scheduling and dispatch engine of src/models.py:           *)
(* the trigger-window evaluation of a NotificationSchedule, the audience   *)
(* resolution (lists of GaiaUser model bundles) and the per-channel        *)
(* dispatch with its last_sent_at / active bookkeeping.                    *)
(*                                                                         *)
(* Times are integers counting seconds.  A null field is None (strings,    *)
(* entity references) or NoTime (timestamps).                              *)
(***************************************************************************)
EXTENDS Integers, Sequences, FiniteSets, TLC

VARIABLES
    sched,          \* the NotificationSchedule row as stored
    now,            \* utils.get_local_now()
    job,            \* the Job root entity (start_time, end_time)
    sg,             \* the SubjectGroup root entity (photos_available, start_time, end_time)
    lastEval,       \* the last window evaluation made at the current instant
    deactivated,    \* TRUE once a window evaluation has saved active = False
    world,          \* the entity relationship graph the audience resolvers read
    out,            \* what the last audience resolver call returned or raised
    wk,             \* the run_notification_schedule calls, one per worker
    env,            \* the connectors' outside world: the recipients a send fails for
    tpl,            \* a ContextualNotificationTemplate.dynamic_context call
    conn,           \* the connector calls made directly, and what they left behind
    hist            \* what the dispatches made so far have done

vars ==
    <<sched, now, job, sg, lastEval, deactivated, world, out, wk, env, tpl, conn,
      hist>>

-----------------------------------------------------------------------------
(* Bounds of the model *)

MaxDays == 8
MaxCount == 2
MaxEmployees == 2
MaxJobs == 2
MaxClients == 2
MaxSubjects == 2
MaxFilters == 2
MaxDispatchDays == 3
MaxRefLen == 4
MaxContextKeys == 1
MaxCalls == 2
MaxSends == 2

None == "None"
NoTime == 0 - 1
Day == 24 * 60 * 60

-----------------------------------------------------------------------------
(* NotificationSchedule: field choices *)

start_trigger_choices ==
    { "Before job start", "After job end", "After photos available",
      "After job saved", "After job location changed",
      "After start date on subject group", "After end date on subject group" }

end_trigger_choices == { "Until job start", "End date on subject group" }

recurrence_delta_choices == { "seconds", "minutes", "hours", "days", "weeks" }

\* datetime.timedelta(<unit>=count) in seconds; NoTime when no branch binds delta
timedelta(unit, count) ==
    IF unit = "seconds" THEN count
    ELSE IF unit = "minutes" THEN 60 * count
    ELSE IF unit = "hours" THEN 60 * 60 * count
    ELSE IF unit = "days" THEN Day * count
    ELSE IF unit = "weeks" THEN 7 * Day * count
    ELSE NoTime

-----------------------------------------------------------------------------
(* Trigger window evaluation *)

\* within_recurring_notification_window: [err, within]
\* within_recurring_notification_window allowing the first send only: once
\* last_sent_at is set it never reports the spacing as passed
within_recurring_notification_window_once(s, instant) ==
    LET delta == timedelta(s.recurrence_delta, s.recurrence_delta_count)
    IN  IF s.last_sent_at = NoTime
        THEN [err |-> None, within |-> TRUE]
        ELSE IF delta = NoTime
        THEN [err |-> "UnboundLocalError", within |-> FALSE]
        ELSE [err |-> None, within |-> FALSE]

within_recurring_notification_window(s, instant) ==
    LET delta == timedelta(s.recurrence_delta, s.recurrence_delta_count)
    IN  IF s.last_sent_at = NoTime
        THEN [err |-> None, within |-> TRUE]
        ELSE IF delta = NoTime
        THEN [err |-> "UnboundLocalError", within |-> FALSE]
        ELSE [err |-> None, within |-> ~((instant - s.last_sent_at) < delta)]

\* the start condition of subject_group_within_notification_window
sg_after_start_trigger(s, g, instant) ==
    \/ s.start_trigger = "After photos available" /\ g.photos_available
    \/ s.start_trigger = "After start date on subject group" /\ instant > g.start_time
    \/ s.start_trigger = "After end date on subject group" /\ instant > g.end_time

\* the end condition of subject_group_within_notification_window
sg_after_end_trigger(s, g, instant) ==
    /\ sg_after_start_trigger(s, g, instant)
    /\ \/ s.end_at # NoTime /\ instant > s.end_at
       \/ s.end_trigger = "End date on subject group" /\ instant > g.end_time

\* whether within_recurring_notification_window was called, and what it said
Spacing(consulted, rec) ==
    IF ~consulted THEN "none"
    ELSE IF rec.err # None THEN "error"
    ELSE IF rec.within THEN "passed" ELSE "blocked"

\* subject_group_within_notification_window: [err, within, deactivate, spacing]
\* (within is the value returned; deactivate: self.active = False was saved)
subject_group_within_notification_window(s, g, instant) ==
    LET started == sg_after_start_trigger(s, g, instant)
        ended   == sg_after_end_trigger(s, g, instant)
        open    == started /\ ~ended
        rec     == within_recurring_notification_window(s, instant)
    IN  IF open /\ s.recurring /\ rec.err # None
        THEN [err |-> rec.err, within |-> FALSE, deactivate |-> FALSE,
              spacing |-> "error"]
        ELSE LET within == IF open /\ s.recurring THEN rec.within ELSE open
             IN  [err        |-> None,
                  within     |-> within,
                  spacing    |-> Spacing(open /\ s.recurring, rec),
                  deactivate |-> ended \/ (~s.recurring /\ within
                                           /\ s.last_sent_at # NoTime)]

\* the start condition of job_within_notification_window with 'Before job
\* start' holding whatever the instant
job_after_start_trigger_untimed(s, j, instant) ==
    \/ s.start_trigger = "Before job start"
    \/ s.start_trigger = "After job end" /\ instant > j.end_time
    \/ s.start_trigger = "After job saved"
    \/ s.start_trigger = "After job location changed"

\* the start condition of job_within_notification_window
job_after_start_trigger(s, j, instant) ==
    \/ s.start_trigger = "Before job start" /\ instant < j.start_time
    \/ s.start_trigger = "After job end" /\ instant > j.end_time
    \/ s.start_trigger = "After job saved"
    \/ s.start_trigger = "After job location changed"

\* the end condition of job_within_notification_window
job_after_end_trigger(s, j, instant) ==
    /\ job_after_start_trigger(s, j, instant)
    /\ \/ s.end_at # NoTime /\ instant > s.end_at
       \/ s.end_trigger = "Until job start" /\ instant > j.start_time

\* job_within_notification_window retiring a one-shot schedule only once
\* last_sent_at is set, as the subject-group evaluation does
job_within_notification_window_after_send(s, j, instant) ==
    LET started == job_after_start_trigger(s, j, instant)
        ended   == job_after_end_trigger(s, j, instant)
        open    == started /\ ~ended
        rec     == within_recurring_notification_window(s, instant)
    IN  IF ended /\ s.recurring /\ rec.err # None
        THEN [err |-> rec.err, within |-> FALSE, deactivate |-> FALSE,
              spacing |-> "error"]
        ELSE LET within == IF ended /\ s.recurring THEN rec.within ELSE open
             IN  [err        |-> None,
                  within     |-> within,
                  spacing    |-> Spacing(ended /\ s.recurring, rec),
                  deactivate |-> ended \/ (~s.recurring /\ within
                                           /\ s.last_sent_at # NoTime)]

\* job_within_notification_window deactivating the schedule at the end
\* condition only, a one-shot schedule staying active after it was eligible
job_within_notification_window_never_retiring(s, j, instant) ==
    LET started == job_after_start_trigger(s, j, instant)
        ended   == job_after_end_trigger(s, j, instant)
        open    == started /\ ~ended
        rec     == within_recurring_notification_window(s, instant)
    IN  IF ended /\ s.recurring /\ rec.err # None
        THEN [err |-> rec.err, within |-> FALSE, deactivate |-> FALSE,
              spacing |-> "error"]
        ELSE LET within == IF ended /\ s.recurring THEN rec.within ELSE open
             IN  [err        |-> None,
                  within     |-> within,
                  spacing    |-> Spacing(ended /\ s.recurring, rec),
                  deactivate |-> ended]

\* job_within_notification_window consulting the recurrence spacing while the
\* window is open, as the subject-group evaluator does, and not once it ended
job_within_notification_window_spacing_when_open(s, j, instant) ==
    LET started == job_after_start_trigger(s, j, instant)
        ended   == job_after_end_trigger(s, j, instant)
        open    == started /\ ~ended
        rec     == within_recurring_notification_window(s, instant)
    IN  IF open /\ s.recurring /\ rec.err # None
        THEN [err |-> rec.err, within |-> FALSE, deactivate |-> FALSE,
              spacing |-> "error"]
        ELSE LET within == IF open /\ s.recurring THEN rec.within ELSE open
             IN  [err        |-> None,
                  within     |-> within,
                  spacing    |-> Spacing(open /\ s.recurring, rec),
                  deactivate |-> ended \/ (~s.recurring /\ within)]

\* job_within_notification_window: [err, within, deactivate, spacing]
job_within_notification_window(s, j, instant) ==
    LET started == job_after_start_trigger(s, j, instant)
        ended   == job_after_end_trigger(s, j, instant)
        open    == started /\ ~ended
        rec     == within_recurring_notification_window(s, instant)
    IN  IF ended /\ s.recurring /\ rec.err # None
        THEN [err |-> rec.err, within |-> FALSE, deactivate |-> FALSE,
              spacing |-> "error"]
        ELSE LET within == IF ended /\ s.recurring THEN rec.within ELSE open
             IN  [err        |-> None,
                  within     |-> within,
                  spacing    |-> Spacing(ended /\ s.recurring, rec),
                  deactivate |-> ended \/ (~s.recurring /\ within)]

-----------------------------------------------------------------------------
(* Audience resolution.  Entities are their primary keys (1, 2, ...); NoId  *)
(* is a null reference or an argument left at its default None.  A bundle   *)
(* (a gaia_user_models dict) is a record of its seven slots, an absent key   *)
(* being NoId.  A resolver returns [err, list]: err is None and list the     *)
(* list returned, or err names the exception raised (and list is empty).     *)

NoId == 0

\* unique_gaia_users_models always stores the key "gaia_user", with None for
\* a recipient that is null: the slot gaia_user is NoId then.  It is NoKey in
\* a dict that lacks the key, and NotADict when the bundle is None, not a dict
NoKey == 0 - 1
NotADict == 0 - 2

Bundle(gaia_user, subject_group, job_, session, employee, client, subject) ==
    [gaia_user |-> gaia_user, subject_group |-> subject_group, job |-> job_,
     session |-> session, employee |-> employee, client |-> client,
     subject |-> subject]

\* a dict without any of the keys
NoBundle == Bundle(NoKey, NoId, NoId, NoId, NoId, NoId, NoId)

\* None given where a bundle is expected
NoneBundle == Bundle(NotADict, NoId, NoId, NoId, NoId, NoId, NoId)

\* gaia_user_models.get(key): None for an absent key
get(gaia_user_models, key) ==
    IF gaia_user_models[key] \in {NoKey, NotADict} THEN NoId
    ELSE gaia_user_models[key]

Contains(list, x) == \E i \in 1..Len(list) : list[i] = x

\* unique_gaia_users_models: the call arguments c are the bundle asked for.
\* A subject given is stored with a str key into the list passed in (line 590),
\* which raises TypeError before anything is appended.
unique_gaia_users_models(gaia_users_models, c) ==
    LET gaia_user_models == [c EXCEPT !.subject = NoId]
    IN  IF c.subject # NoId
        THEN [err |-> "TypeError", list |-> <<>>]
        ELSE IF Contains(gaia_users_models, gaia_user_models)
        THEN [err |-> None, list |-> gaia_users_models]
        ELSE [err |-> None, list |-> Append(gaia_users_models, gaia_user_models)]

\* the successive calls `gaia_users_models = self.unique_gaia_users_models(...)`
\* of a resolver, in the order its loops make them, up to the first that raises
RECURSIVE Accumulate(_, _)
Accumulate(calls, acc) ==
    IF calls = <<>> THEN [err |-> None, list |-> acc]
    ELSE LET r == unique_gaia_users_models(acc, Head(calls))
         IN  IF r.err # None THEN r ELSE Accumulate(Tail(calls), r.list)

\* the concatenation of f[1], f[2], ..., f[n]: what a for loop's body emits
RECURSIVE Flatten(_)
Flatten(seqs) ==
    IF seqs = <<>> THEN <<>> ELSE Head(seqs) \o Flatten(Tail(seqs))

When(cond, calls) == IF cond THEN calls ELSE <<>>

any_client_filter(s) ==
    s.clients_persons \/ s.clients_schools \/ s.clients_commercial_others

any_subject_filter(s) ==
    \/ s.subjects_booked \/ s.subjects_parents_booked
    \/ s.subjects_not_booked \/ s.subjects_parents_not_booked

\* the School / Commercial / Other branch of the client filters
contacts_category(s, category) ==
    \/ s.clients_schools /\ category = "School"
    \/ s.clients_commercial_others /\ (category = "Commercial" \/ category = "Other")

\* job_gaia_users_models, lines 603-610: the employees staffed on the job
job_employee_calls(s, w, j) ==
    When(s.employees,
         [i \in 1..Len(w.employees[j]) |->
            LET employee == w.employees[j][i]
            IN  Bundle(w.emp_user[employee], NoId, j, NoId, employee, NoId, NoId)])

\* job_gaia_users_models, lines 612-629: the clients of the job
job_client_calls(s, w, j) ==
    When(any_client_filter(s),
         Flatten([i \in 1..Len(w.clients[j]) |->
            LET client == w.clients[j][i]
            IN  When(s.clients_persons /\ w.category[client] = "Person",
                     <<Bundle(w.client_user[client], NoId, j, NoId, NoId, NoId, NoId)>>)
                \o
                When(contacts_category(s, w.category[client]),
                     [k \in 1..Len(w.contacts[client]) |->
                        Bundle(w.contacts[client][k], NoId, j, NoId, NoId, client, NoId)])]))

\* job_gaia_users_models, lines 639-692: one subject of one subject group of the job
job_subject_calls(s, w, j, subject_group, subject) ==
    LET subjects_session == w.session[j][subject]
        parents == w.parents[subject]
        own == <<Bundle(w.subj_user[subject], subject_group, j, subjects_session,
                        NoId, NoId, subject)>>
        ofParents == [k \in 1..Len(parents) |->
                        Bundle(parents[k], subject_group, j, subjects_session,
                               NoId, NoId, subject)]
    IN  When(subjects_session # NoId,
             When(s.subjects_booked, own) \o When(s.subjects_parents_booked, ofParents))
        \o
        When(subjects_session = NoId,
             When(s.subjects_not_booked, own)
             \o When(s.subjects_parents_not_booked, ofParents))

\* job_gaia_users_models, lines 631-692: the subjects of the job's subject groups
job_subjects_calls(s, w, j) ==
    When(any_subject_filter(s),
         Flatten([g \in 1..Len(w.subject_groups[j]) |->
            LET subject_group == w.subject_groups[j][g]
            IN  Flatten([i \in 1..Len(w.subjects[subject_group]) |->
                    job_subject_calls(s, w, j, subject_group,
                                      w.subjects[subject_group][i])])]))

\* every bundle job_gaia_users_models(job) asks unique_gaia_users_models for
job_calls(s, w, j) ==
    job_employee_calls(s, w, j) \o job_client_calls(s, w, j)
    \o job_subjects_calls(s, w, j)

\* job_gaia_users_models(job)
job_gaia_users_models(s, w, j) == Accumulate(job_calls(s, w, j), <<>>)

\* gaia_users_models_for_subject_group, lines 702-740: the employees and clients
\* of one job linked to the subject group
sg_job_calls(s, w, g, j) ==
    When(s.employees,
         [i \in 1..Len(w.employees[j]) |->
            LET employee == w.employees[j][i]
            IN  Bundle(w.emp_user[employee], g, j, NoId, employee, NoId, NoId)])
    \o
    When(any_client_filter(s),
         Flatten([i \in 1..Len(w.clients[j]) |->
            LET client == w.clients[j][i]
            IN  When(s.clients_persons /\ w.category[client] = "Person",
                     <<Bundle(w.client_user[client], g, j, NoId, NoId, client, NoId)>>)
                \o
                When(contacts_category(s, w.category[client]),
                     [k \in 1..Len(w.contacts[client]) |->
                        Bundle(w.contacts[client][k], g, j, NoId, NoId, client, NoId)])]))

\* gaia_users_models_for_subject_group, lines 742-761: the subject group's own client
sg_own_client_calls(s, w, g) ==
    LET client == w.sg_client[g]
        own == <<Bundle(w.client_user[client], g, NoId, NoId, NoId, client, NoId)>>
    IN  IF client = NoId THEN <<>>
        ELSE When(s.clients_persons /\ w.category[client] = "Person", own)
             \o When(contacts_category(s, w.category[client]), own)

\* gaia_users_models_for_subject_group, lines 769-841: one subject of the group
sg_subject_calls(s, w, g, subject) ==
    LET parents == w.parents[subject]
    IN  IF w.jobs[g] = <<>>
        THEN When(s.subjects_not_booked,
                  <<Bundle(w.subj_user[subject], g, NoId, NoId, NoId, NoId, NoId)>>)
             \o When(s.subjects_parents_not_booked,
                     [k \in 1..Len(parents) |->
                        Bundle(parents[k], g, NoId, NoId, NoId, NoId, NoId)])
        ELSE Flatten([n \in 1..Len(w.jobs[g]) |->
                LET j == w.jobs[g][n]
                    subjects_session == w.session[j][subject]
                IN  When(subjects_session # NoId,
                         When(s.subjects_booked,
                              <<Bundle(w.subj_user[subject], g, j, subjects_session,
                                       NoId, NoId, subject)>>)
                         \o When(s.subjects_parents_booked,
                                 [k \in 1..Len(parents) |->
                                    Bundle(parents[k], g, j, subjects_session,
                                           NoId, NoId, subject)]))
                    \o
                    When(subjects_session = NoId,
                         When(s.subjects_not_booked,
                              <<Bundle(w.subj_user[subject], g, j, NoId,
                                       NoId, NoId, subject)>>)
                         \o When(s.subjects_parents_not_booked,
                                 [k \in 1..Len(parents) |->
                                    Bundle(parents[k], g, j, NoId,
                                           NoId, NoId, subject)]))])

\* every bundle gaia_users_models_for_subject_group asks unique_gaia_users_models for
sg_calls(s, w, g) ==
    Flatten([n \in 1..Len(w.jobs[g]) |-> sg_job_calls(s, w, g, w.jobs[g][n])])
    \o sg_own_client_calls(s, w, g)
    \o When(any_subject_filter(s),
            Flatten([i \in 1..Len(w.subjects[g]) |->
                sg_subject_calls(s, w, g, w.subjects[g][i])]))

\* gaia_users_models_for_subject_group(subject_group).  The conditions of
\* lines 742 and 749 read subject_group.client.category as soon as a client
\* filter is set: on a group whose client is None this raises AttributeError,
\* after the loop over the jobs (whose calls pass no subject and cannot
\* raise) and before any subject is looked at
gaia_users_models_for_subject_group(s, w, g) ==
    IF w.sg_client[g] = NoId /\ any_client_filter(s)
    THEN [err |-> "AttributeError", list |-> <<>>]
    ELSE Accumulate(sg_calls(s, w, g), <<>>)

-----------------------------------------------------------------------------
(* Template context.  A context value (a str of the JSON context) is the    *)
(* sequence of its words; the words are "@", ".", the seven entity kind     *)
(* names and a field name.  A resolved value is a record [tag, text, model]: *)
(* None, a literal copied (text) or a field read off an entity (model).      *)

\* the entity kinds, in the order of the elif chain of dynamic_context
EntityKinds ==
    <<"GaiaUser", "SubjectGroup", "Job", "Session", "Employee", "Client", "Subject">>

\* the key of the bundle that dynamic_context reads for each kind
SlotNames ==
    <<"gaia_user", "subject_group", "job", "session", "employee", "client", "subject">>

Words == {"@", ".", "name"} \cup {EntityKinds[k] : k \in 1..Len(EntityKinds)}

\* `sub in word` for two words: "Subject" is a substring of "SubjectGroup"
Occurs(sub, word) == word = sub \/ (sub = "Subject" /\ word = "SubjectGroup")

\* `sub in context_value`
In(sub, context_value) ==
    \E i \in 1..Len(context_value) : Occurs(sub, context_value[i])

\* the position of the first "." of value at or after position i, 0 if none
FirstDot(value, i) ==
    IF \E k \in i..Len(value) : value[k] = "."
    THEN CHOOSE k \in i..Len(value) :
            value[k] = "." /\ \A m \in i..(k - 1) : value[m] # "."
    ELSE 0

\* context_value.split(".")[1]: [err, field]
split_1(context_value) ==
    LET first == FirstDot(context_value, 1)
    IN  IF first = 0
        THEN [err |-> "IndexError", field |-> <<>>]
        ELSE LET second == FirstDot(context_value, first + 1)
                 last   == IF second = 0 THEN Len(context_value) ELSE second - 1
             IN  [err |-> None, field |-> SubSeq(context_value, first + 1, last)]

NoValue == [tag |-> "None", text |-> <<>>, model |-> NoId]

\* the attributes of the entities (GaiaUser, Job, ... are models of other apps)
model_fields == { <<"name">> }

\* getattr(model, field): [err, value]
getattr(model, field) ==
    IF field \in model_fields
    THEN [err |-> None, value |-> [tag |-> "field", text |-> field, model |-> model]]
    ELSE [err |-> "AttributeError", value |-> NoValue]

\* get_model_field(context_value, model): the field name is split off before
\* the model is looked at
get_model_field(context_value, model) ==
    LET s == split_1(context_value)
    IN  IF s.err # None THEN [err |-> s.err, value |-> NoValue]
        ELSE IF model # NoId THEN getattr(model, s.field)
        ELSE [err |-> None, value |-> NoValue]

\* one turn of the loop of dynamic_context: [err, set, value], set telling
\* whether context[key] is assigned
context_entry(context_value, gaia_user_models) ==
    IF ~In("@", context_value)
    THEN [err |-> None, set |-> TRUE,
          value |-> [tag |-> "literal", text |-> context_value, model |-> NoId]]
    ELSE IF \E k \in 1..Len(EntityKinds) : In(EntityKinds[k], context_value)
    THEN LET k == CHOOSE k \in 1..Len(EntityKinds) :
                    /\ In(EntityKinds[k], context_value)
                    /\ \A m \in 1..(k - 1) : ~In(EntityKinds[m], context_value)
             r == get_model_field(context_value, get(gaia_user_models, SlotNames[k]))
         IN  [err |-> r.err, set |-> TRUE, value |-> r.value]
    ELSE [err |-> None, set |-> FALSE, value |-> NoValue]

\* the loop over self.context.items(), context being the dict built so far
\* (a sequence of [key, value] entries)
RECURSIVE context_items(_, _, _)
context_items(items, gaia_user_models, context) ==
    IF items = <<>> THEN [err |-> None, context |-> context]
    ELSE LET e == context_entry(Head(items).value, gaia_user_models)
         IN  IF e.err # None THEN [err |-> e.err, context |-> <<>>]
             ELSE context_items(Tail(items), gaia_user_models,
                    IF e.set
                    THEN Append(context, [key |-> Head(items).key, value |-> e.value])
                    ELSE context)

\* ContextualNotificationTemplate.dynamic_context(gaia_user_models): None is
\* replaced by the empty dict, every slot of which is absent
dynamic_context(self_context, gaia_user_models) ==
    context_items(self_context, gaia_user_models, <<>>)

-----------------------------------------------------------------------------
(* The states the model starts from *)

FilterNames ==
    { "employees", "clients_persons", "clients_schools",
      "clients_commercial_others", "subjects_booked", "subjects_parents_booked",
      "subjects_not_booked", "subjects_parents_not_booked" }

ConnectorNames == { "smtp_connector", "twilio_connector", "slack_connector" }

\* a NotificationSchedule row: active defaults to True, last_sent_at to null;
\* F are the audience filters set, C the connectors configured
MkSchedule(recurring, unit, count, start_trigger, end_trigger, end_at, F, C) ==
    [ active |-> TRUE,
      recurring |-> recurring,
      recurrence_delta |-> unit,
      recurrence_delta_count |-> count,
      start_trigger |-> start_trigger,
      end_trigger |-> end_trigger,
      end_at |-> end_at,
      last_sent_at |-> NoTime,
      employees |-> "employees" \in F,
      clients_persons |-> "clients_persons" \in F,
      clients_schools |-> "clients_schools" \in F,
      clients_commercial_others |-> "clients_commercial_others" \in F,
      subjects_booked |-> "subjects_booked" \in F,
      subjects_parents_booked |-> "subjects_parents_booked" \in F,
      subjects_not_booked |-> "subjects_not_booked" \in F,
      subjects_parents_not_booked |-> "subjects_parents_not_booked" \in F,
      smtp_connector |-> "smtp_connector" \in C,
      twilio_connector |-> "twilio_connector" \in C,
      slack_connector |-> "slack_connector" \in C ]

Categories == { "Person", "School", "Commercial", "Other" }

Upto(n) == [i \in 1..n |-> i]

Min(a, b) == IF a < b THEN a ELSE b

\* An entity graph around job 1 and subject group 1.  Job 1 has nEmp employees
\* and nClients clients; subject group 1 is linked to jobs 1..nJobs and has
\* nSubj subjects.  Employee 1 is staffed on every job and employee e is
\* GaiaUser e.  Client 1 has category cat, the other clients are persons; with
\* sameUser every client is the same GaiaUser.  With contacts every client
\* has two contacts, one of them GaiaUser 1, and none otherwise.  With
\* parents the subjects share one parent, and have none otherwise; subject 1
\* is booked on job 1 (session 1) when booked.  With ownClient the subject
\* group belongs to client 1, and its client is None otherwise.
MkWorld(nEmp, nJobs, nClients, cat, sameUser, nSubj, booked, contacts, parents, ownClient) ==
    [ employees |-> [j \in 1..MaxJobs |-> Upto(IF j = 1 THEN nEmp ELSE Min(nEmp, 1))],
      emp_user |-> [e \in 1..MaxEmployees |-> e],
      clients |-> [j \in 1..MaxJobs |-> Upto(IF j = 1 THEN nClients ELSE 0)],
      category |-> [c \in 1..MaxClients |-> IF c = 1 THEN cat ELSE "Person"],
      client_user |-> [c \in 1..MaxClients |-> IF sameUser THEN 11 ELSE 10 + c],
      contacts |-> [c \in 1..MaxClients |->
                      IF contacts THEN <<20 + c, 1>> ELSE <<>>],
      subject_groups |-> [j \in 1..MaxJobs |-> Upto(IF j <= nJobs THEN 1 ELSE 0)],
      jobs |-> [g \in {1} |-> Upto(nJobs)],
      sg_client |-> [g \in {1} |-> IF ownClient THEN 1 ELSE NoId],
      subjects |-> [g \in {1} |-> Upto(nSubj)],
      subj_user |-> [x \in 1..MaxSubjects |-> 30 + x],
      parents |-> [x \in 1..MaxSubjects |-> IF parents THEN <<40>> ELSE <<>>],
      session |-> [j \in 1..MaxJobs |->
                     [x \in 1..MaxSubjects |->
                        IF booked /\ j = 1 /\ x = 1 THEN 1 ELSE NoId]] ]

NoWorld == MkWorld(0, 0, 0, "Person", FALSE, 0, FALSE, TRUE, TRUE, TRUE)

\* no evaluation made at the current instant.  within is the value returned,
\* deactivate whether the evaluation saved active = False, after whether an
\* earlier evaluation had done so
NoEval ==
    [root |-> "none", within |-> FALSE, err |-> None, after |-> FALSE,
     deactivate |-> FALSE, spacing |-> "none"]

NoOut == [op |-> "none", err |-> None, list |-> <<>>]

\* a ContextualNotificationTemplate with an empty context, and no
\* dynamic_context call made on it: the template's context (a sequence of
\* [key, value] items), whether its notification_template is set, the bundle
\* given to the call, and what the call returned or raised
NoTemplate ==
    [op |-> "none", context |-> <<>>, notification_template |-> TRUE,
     gaia_user_models |-> NoBundle, err |-> None, resolved |-> <<>>]

\* the keys of the context of a template, in the order of its items
ContextKeys == <<"email_subject", "who">>

\* a template with one context item, the subject of the email
SubjectTemplate(email_subject) ==
    [NoTemplate EXCEPT
        !.context = <<[key |-> "email_subject", value |-> email_subject]>>]

\* a template whose email subject is a literal
TheTemplate == SubjectTemplate(<<"name">>)

\* the templates of the schedules dispatched: a literal subject, a subject
\* read from the recipient, no email_subject, a reference without a field,
\* a reference to a field the job does not have, no notification_template
DispatchTemplates ==
    { TheTemplate,
      SubjectTemplate(<<"@", "GaiaUser", ".", "name">>),
      NoTemplate,
      SubjectTemplate(<<"@", "GaiaUser">>),
      SubjectTemplate(<<"@", "Job", ".", "Job">>),
      [TheTemplate EXCEPT !.notification_template = FALSE] }

\* no connector called directly yet
NoCalls == [calls |-> <<>>, notifications |-> <<>>]

\* no dispatch made yet.  active_sends counts, up to MaxSends, the calls of
\* run_notification_schedule that began on an active schedule and delivered
NoHistory == [active_sends |-> 0]

TheJob == [start_time |-> 2 * Day, end_time |-> 3 * Day]

TheSubjectGroup(photos_available) ==
    [photos_available |-> photos_available, start_time |-> Day, end_time |-> 3 * Day]

Workers == { 1, 2 }

\* smtp_fails, twilio_fails: the recipients the provider fails for;
\* slack_down: chat_postMessage raises
NoFailures == [smtp_fails |-> {}, twilio_fails |-> {}, slack_down |-> FALSE]

\* a worker not yet asked to run the schedule.  job and subject_group tell
\* which arguments the call was given; active and last_sent_at are the fields
\* of the instance the call was made on (self), read from the row when the
\* call began (loaded_last_sent_at keeps the value read); within is the last
\* value of within_notification_window (job_within the one of the job's
\* window), spacing what the recurrence check said, if consulted, evaluations
\* and resolutions the window evaluations and audience resolutions made; saved_inactive tells that the call has saved
\* active = False, updated that it has set last_sent_at; the
\* rest are the locals of send_notifications and the connector calls made.
IdleWorker ==
    [ pc |-> "idle", job |-> FALSE, subject_group |-> FALSE,
      active |-> TRUE, last_sent_at |-> NoTime, loaded_last_sent_at |-> NoTime,
      began_active |-> TRUE, saved_inactive |-> FALSE,
      within |-> FALSE, job_within |-> FALSE, spacing |-> "none",
      evaluations |-> 0, resolutions |-> 0,
      updated |-> FALSE,
      gaia_users_models |-> <<>>, channels |-> <<>>, i |-> 0, sent |-> FALSE,
      err |-> None, attempts |-> <<>>, notifications |-> <<>> ]

\* self.save() writing every field of the instance, whatever update_fields says
save_every_field(row, instance, update_fields) == instance

\* self.save(update_fields=[...]): the row after the save, only the named
\* fields taken from the instance
save(row, instance, update_fields) ==
    [f \in DOMAIN row |-> IF f \in update_fields THEN instance[f] ELSE row[f]]

-----------------------------------------------------------------------------
(* SpecWindow: the trigger window evaluated again and again as the clock    *)
(* advances, for every trigger configuration and both root kinds            *)

InitWindow ==
    /\ \E recurring \in BOOLEAN, unit \in recurrence_delta_choices,
          count \in 1..MaxCount, start_trigger \in start_trigger_choices,
          end_trigger \in end_trigger_choices \cup {None},
          end_at \in {NoTime, 4 * Day} :
            /\ recurring \/ (unit = "days" /\ count = 1)
            /\ sched = MkSchedule(recurring, unit, count, start_trigger,
                                  end_trigger, end_at, {}, {})
    /\ now = 0
    /\ job = TheJob
    /\ \E photos_available \in BOOLEAN : sg = TheSubjectGroup(photos_available)
    /\ lastEval = NoEval
    /\ deactivated = FALSE
    /\ world = NoWorld
    /\ out = NoOut
    /\ wk = [w \in Workers |-> IdleWorker]
    /\ tpl = NoTemplate
    /\ conn = NoCalls
    /\ hist = NoHistory
    /\ env = NoFailures

\* the clock advances by a day
Tick ==
    /\ now < MaxDays * Day
    /\ now' = now + Day
    /\ lastEval' = NoEval
    /\ UNCHANGED <<sched, job, sg, deactivated, world, out, wk, env, tpl, conn, hist>>

\* self.job_within_notification_window(job), its save of active included
EvaluateJob ==
    LET r == job_within_notification_window(sched, job, now)
    IN  /\ sched' = IF r.deactivate
                     THEN save(sched, [sched EXCEPT !.active = FALSE], {"active"})
                     ELSE sched
        /\ lastEval' = [root |-> "job", within |-> r.within, err |-> r.err,
                        after |-> deactivated, deactivate |-> r.deactivate,
                        spacing |-> r.spacing]
        /\ deactivated' = (deactivated \/ r.deactivate)
        /\ UNCHANGED <<now, job, sg, world, out, wk, env, tpl, conn, hist>>

\* self.subject_group_within_notification_window(subject_group)
EvaluateSubjectGroup ==
    LET r == subject_group_within_notification_window(sched, sg, now)
    IN  /\ sched' = IF r.deactivate
                     THEN save(sched, [sched EXCEPT !.active = FALSE], {"active"})
                     ELSE sched
        /\ lastEval' = [root |-> "subject_group", within |-> r.within,
                        err |-> r.err, after |-> deactivated,
                        deactivate |-> r.deactivate, spacing |-> r.spacing]
        /\ deactivated' = (deactivated \/ r.deactivate)
        /\ UNCHANGED <<now, job, sg, world, out, wk, env, tpl, conn, hist>>

\* self.set_last_sent_at(): the clock read anew, and saved; no precondition
SetLastSentAt ==
    /\ sched' = save(sched, [sched EXCEPT !.last_sent_at = now], {"last_sent_at"})
    /\ lastEval' = NoEval
    /\ UNCHANGED <<now, job, sg, deactivated, world, out, wk, env, tpl, conn, hist>>

NextWindow == Tick \/ EvaluateJob \/ EvaluateSubjectGroup \/ SetLastSentAt

SpecWindow == InitWindow /\ [][NextWindow]_vars

\* SpecRecurring: a recurring schedule of a subject group whose window, once
\* started, never ends, evaluated again and again while the clock advances
InitRecurring ==
    /\ \E unit \in recurrence_delta_choices, count \in 1..MaxCount,
          start_trigger \in { "After photos available",
                              "After start date on subject group",
                              "After end date on subject group" } :
            sched = MkSchedule(TRUE, unit, count, start_trigger, None, NoTime,
                               {}, {})
    /\ now = 0
    /\ job = TheJob
    /\ sg = TheSubjectGroup(TRUE)
    /\ lastEval = NoEval
    /\ deactivated = FALSE
    /\ world = NoWorld
    /\ out = NoOut
    /\ wk = [w \in Workers |-> IdleWorker]
    /\ tpl = NoTemplate
    /\ conn = NoCalls
    /\ hist = NoHistory
    /\ env = NoFailures

NextRecurring == Tick \/ EvaluateSubjectGroup \/ SetLastSentAt

\* the caller keeps evaluating and the clock keeps advancing (up to MaxDays)
SpecRecurring ==
    /\ InitRecurring /\ [][NextRecurring]_vars
    /\ WF_vars(Tick) /\ WF_vars(EvaluateSubjectGroup)

-----------------------------------------------------------------------------
(* SpecAudience: the two audience resolvers applied to every bounded entity *)
(* graph and every choice of at most MaxFilters audience filters            *)

InitAudience ==
    /\ \E F \in SUBSET FilterNames :
            /\ Cardinality(F) <= MaxFilters
            /\ sched = MkSchedule(FALSE, "days", 1, "After job saved", None,
                                  NoTime, F, {})
    /\ \E nEmp \in 0..MaxEmployees, nJobs \in 0..MaxJobs, nClients \in 0..MaxClients,
          cat \in Categories, sameUser \in BOOLEAN, nSubj \in 0..MaxSubjects,
          booked \in BOOLEAN, contacts \in BOOLEAN, parents \in BOOLEAN,
          ownClient \in BOOLEAN :
            /\ (nClients = 0 /\ ~ownClient) => (cat = "Person" /\ contacts)
            /\ sameUser => nClients >= 2
            /\ booked => (nSubj >= 1 /\ nJobs >= 1)
            /\ nSubj = 0 => parents
            /\ world = MkWorld(nEmp, nJobs, nClients, cat, sameUser, nSubj, booked,
                               contacts, parents, ownClient)
    /\ now = 0
    /\ job = TheJob
    /\ sg = TheSubjectGroup(FALSE)
    /\ lastEval = NoEval
    /\ deactivated = FALSE
    /\ out = NoOut
    /\ wk = [w \in Workers |-> IdleWorker]
    /\ tpl = NoTemplate
    /\ conn = NoCalls
    /\ hist = NoHistory
    /\ env = NoFailures

\* self.job_gaia_users_models(job) for job 1
ResolveJob ==
    /\ out' = [op |-> "job"] @@ job_gaia_users_models(sched, world, 1)
    /\ UNCHANGED <<sched, now, job, sg, lastEval, deactivated, world, wk, env, tpl, conn, hist>>

\* self.gaia_users_models_for_subject_group(subject_group) for subject group 1
ResolveSubjectGroup ==
    /\ out' = [op |-> "subject_group"]
              @@ gaia_users_models_for_subject_group(sched, world, 1)
    /\ UNCHANGED <<sched, now, job, sg, lastEval, deactivated, world, wk, env, tpl, conn, hist>>

NextAudience == ResolveJob \/ ResolveSubjectGroup

SpecAudience == InitAudience /\ [][NextAudience]_vars

-----------------------------------------------------------------------------
(* Dispatch: run_notification_schedule step by step.  A step is one read or *)
(* write of the schedule row or one connector call, so that the clock may   *)
(* advance, and another call on the same schedule may run, in between.      *)

\* self: the instance worker w runs on
Self(w) ==
    [sched EXCEPT !.active = wk[w].active, !.last_sent_at = wk[w].last_sent_at]

\* whether a SubjectGroup has the Job attribute job_gaia_users_models reads
\* (employees, clients, subject_groups): it has jobs, client and subjects
subject_group_has_job_attributes == FALSE

\* job_gaia_users_models(subject_group), as run_notification_schedule calls it
\* for a subject-group root (line 444)
job_gaia_users_models_of_subject_group(s) ==
    IF (s.employees \/ any_client_filter(s) \/ any_subject_filter(s))
       /\ ~subject_group_has_job_attributes
    THEN [err |-> "AttributeError", list |-> <<>>]
    ELSE [err |-> None, list |-> <<>>]

\* send_notifications calling send_email_notifications whether or not an
\* SMTP connector is configured
send_notifications_email_unguarded(s) ==
    <<"email">>
    \o When(s.twilio_connector, <<"sms">>)
    \o When(s.slack_connector, <<"slack">>)

\* send_notifications: the channels processed, in order
send_notifications(s) ==
    When(s.smtp_connector, <<"email">>)
    \o When(s.twilio_connector, <<"sms">>)
    \o When(s.slack_connector, <<"slack">>)

\* the task SMTPConnector.send_contextual_template_notification hands the
\* rendered message to: it sends the email and records the Notification, or
\* raises for the recipients the connector fails for
send_email_contextual_template_notification_task(e, gaia_user) ==
    IF gaia_user \in e.smtp_fails
    THEN [err |-> "EmailException", to |-> gaia_user, notified |-> FALSE]
    ELSE [err |-> None, to |-> gaia_user, notified |-> TRUE]

\* context[key] of a template: whether the key is among its items
has_key(template, key) ==
    \E i \in 1..Len(template.context) : template.context[i].key = key

\* ContextualNotificationTemplate.render(gaia_user_models): the error raised,
\* by dynamic_context or by self.notification_template.render on None
render(template, gaia_user_models) ==
    LET context == dynamic_context(template.context, gaia_user_models)
    IN  IF context.err # None THEN context.err
        ELSE IF ~template.notification_template THEN "AttributeError"
        ELSE None

\* SMTPConnector.send_contextual_template_notification(gaia_users_models,
\* contextual_notification_template, notification_schedule): the message is
\* rendered, gaia_users_models["gaia_user"] is read, then the arguments of the
\* task (gaia_user.id, context["email_subject"]), then the task is called
smtp_send_contextual_template_notification(e, gaia_users_models, template) ==
    LET raised(err) == [err |-> err, to |-> NoId, notified |-> FALSE]
    IN  IF render(template, gaia_users_models) # None
        THEN raised(render(template, gaia_users_models))
        ELSE IF gaia_users_models.gaia_user = NotADict THEN raised("TypeError")
        ELSE IF gaia_users_models.gaia_user = NoKey THEN raised("KeyError")
        ELSE IF gaia_users_models.gaia_user = NoId THEN raised("AttributeError")
        ELSE IF ~has_key(template, "email_subject") THEN raised("KeyError")
        ELSE send_email_contextual_template_notification_task(
                e, gaia_users_models.gaia_user)

\* Notification.objects.create(gaia_user=..., <connector>=self)
Notification(gaia_user, connector) ==
    [gaia_user |-> gaia_user,
     slack_connector |-> connector = "slack",
     twilio_connector |-> connector = "twilio",
     smtp_connector |-> connector = "smtp"]

\* lines 73-84 of SlackConnector.send_contextual_template_notification as
\* they would run if line 72 had produced a message: post it when a user or
\* a channel is given, then create the Notification in either case
slack_send_contextual_template_notification_rendering(e, template, gaia_user, channel) ==
    IF (gaia_user # NoId \/ channel # None) /\ e.slack_down
    THEN [err |-> "SlackException", sent |-> FALSE, notified |-> FALSE]
    ELSE [err |-> None, sent |-> (gaia_user # NoId \/ channel # None),
          notified |-> TRUE]

\* SlackConnector.send_contextual_template_notification(slack_client,
\* contextual_notification_template, gaia_user, notification_schedule,
\* channel): [err, sent, notified], sent telling whether a message was posted.
\* Line 72 calls contextual_notification_template.render_to_string(), which
\* ContextualNotificationTemplate (render and dynamic_context only) does not
\* have: the call raises AttributeError before anything is posted or created
slack_send_contextual_template_notification(e, template, gaia_user, channel) ==
    [err |-> "AttributeError", sent |-> FALSE, notified |-> FALSE]

\* TwilioConnector.send_contextual_template_notification(twilio_client,
\* gaia_user, contextual_notification_template): the arguments of send_sms
\* are evaluated first, gaia_user.phone_number (AttributeError when gaia_user
\* is not a GaiaUser) and then contextual_notification_template
\* .render_to_string() (AttributeError, the template has no such method), so
\* neither send_sms nor Notification.objects.create is reached
twilio_send_contextual_template_notification(e, twilio_client, gaia_user, template) ==
    [err |-> "AttributeError", to |-> NoId, notified |-> FALSE]

\* the connector call of send_sms_notifications (lines 873-877): the bundle,
\* the template and the schedule, in this order
sms_connector_call(e, gaia_user_models) ==
    twilio_send_contextual_template_notification(e,
        [kind |-> "dict", id |-> gaia_user_models.gaia_user],
        [kind |-> "ContextualNotificationTemplate", id |-> 1],
        [kind |-> "NotificationSchedule", id |-> 1])

\* the connector call of send_email_notifications (lines 891-895)
email_connector_call(e, gaia_user_models, template) ==
    smtp_send_contextual_template_notification(e, gaia_user_models, template)

Running(w) == wk[w].pc \in {"job", "subject_group", "send", "save"}

\* where run_notification_schedule goes once the windows are evaluated:
\* `if gaia_users_models: self.send_notifications(gaia_users_models)`
AfterEvaluation(rec) ==
    IF rec.gaia_users_models # <<>> /\ send_notifications(sched) # <<>>
    THEN [rec EXCEPT !.pc = "send", !.channels = send_notifications(sched),
                     !.i = 1, !.sent = FALSE]
    ELSE [rec EXCEPT !.pc = "done"]

\* a caller loads the schedule and calls run_notification_schedule with a job,
\* a subject group or both; overlap says whether calls on the schedule may overlap
Begin(w, overlap) ==
    /\ ~Running(w)
    /\ overlap \/ \A v \in Workers : ~Running(v)
    /\ \E hasJob, hasSubjectGroup \in BOOLEAN :
        /\ hasJob \/ hasSubjectGroup
        /\ wk' = [wk EXCEPT ![w] =
                    [IdleWorker EXCEPT
                        !.pc = IF hasJob THEN "job" ELSE "subject_group",
                        !.job = hasJob,
                        !.subject_group = hasSubjectGroup,
                        !.active = sched.active,
                        !.began_active = sched.active,
                        !.last_sent_at = sched.last_sent_at,
                        !.loaded_last_sent_at = sched.last_sent_at]]
    /\ UNCHANGED <<sched, now, job, sg, lastEval, deactivated, world, out, env, tpl, conn, hist>>

\* lines 436-439: the job's window, and the job's audience when within it
RunJob(w) ==
    /\ wk[w].pc = "job"
    /\ LET r   == job_within_notification_window(Self(w), job, now)
           res == IF r.err = None /\ r.within
                  THEN job_gaia_users_models(sched, world, 1)
                  ELSE [err |-> None, list |-> <<>>]
           rec == [wk[w] EXCEPT !.active = IF r.deactivate THEN FALSE ELSE @,
                                !.saved_inactive = @ \/ r.deactivate,
                                !.within = r.within,
                                !.job_within = r.within,
                                !.spacing = r.spacing,
                                !.evaluations = @ + 1,
                                !.resolutions =
                                    IF r.err = None /\ r.within THEN @ + 1 ELSE @,
                                !.gaia_users_models = res.list]
       IN  /\ sched' = IF r.deactivate
                        THEN save(sched, [Self(w) EXCEPT !.active = FALSE], {"active"})
                        ELSE sched
           /\ deactivated' = (deactivated \/ r.deactivate)
           /\ wk' = [wk EXCEPT ![w] =
                IF r.err # None THEN [rec EXCEPT !.pc = "raised", !.err = r.err]
                ELSE IF res.err # None THEN [rec EXCEPT !.pc = "raised", !.err = res.err]
                ELSE IF wk[w].subject_group THEN [rec EXCEPT !.pc = "subject_group"]
                ELSE AfterEvaluation(rec)]
    /\ UNCHANGED <<now, job, sg, lastEval, world, out, env, tpl, conn, hist>>

\* lines 441-447: the subject group's window, and the audience when within it
RunSubjectGroup(w) ==
    /\ wk[w].pc = "subject_group"
    /\ LET r   == subject_group_within_notification_window(Self(w), sg, now)
           res == IF r.err = None /\ r.within
                  THEN job_gaia_users_models_of_subject_group(sched)
                  ELSE [err |-> None, list |-> wk[w].gaia_users_models]
           rec == [wk[w] EXCEPT !.active = IF r.deactivate THEN FALSE ELSE @,
                                !.saved_inactive = @ \/ r.deactivate,
                                !.within = r.within,
                                !.spacing = r.spacing,
                                !.evaluations = @ + 1,
                                !.resolutions =
                                    IF r.err = None /\ r.within THEN @ + 1 ELSE @,
                                !.gaia_users_models = res.list]
       IN  /\ sched' = IF r.deactivate
                        THEN save(sched, [Self(w) EXCEPT !.active = FALSE], {"active"})
                        ELSE sched
           /\ deactivated' = (deactivated \/ r.deactivate)
           /\ wk' = [wk EXCEPT ![w] =
                IF r.err # None THEN [rec EXCEPT !.pc = "raised", !.err = r.err]
                ELSE IF res.err # None THEN [rec EXCEPT !.pc = "raised", !.err = res.err]
                ELSE AfterEvaluation(rec)]
    /\ UNCHANGED <<now, job, sg, lastEval, world, out, env, tpl, conn, hist>>

\* one turn of the loop of send_email_notifications / send_sms_notifications:
\* the connector call for the next bundle; an exception leaves the loop,
\* send_notifications and run_notification_schedule
Deliver(w) ==
    /\ wk[w].pc = "send"
    /\ Head(wk[w].channels) \in {"email", "sms"}
    /\ wk[w].i <= Len(wk[w].gaia_users_models)
    /\ LET channel == Head(wk[w].channels)
           gaia_user_models == wk[w].gaia_users_models[wk[w].i]
           r == IF channel = "email"
                THEN email_connector_call(env, gaia_user_models, tpl)
                ELSE sms_connector_call(env, gaia_user_models)
           attempt == [channel |-> channel, bundle |-> wk[w].i, to |-> r.to,
                       ok |-> r.err = None, at |-> now]
           rec == [wk[w] EXCEPT
                     !.attempts = Append(@, attempt),
                     !.notifications =
                        IF r.notified
                        THEN Append(@, [gaia_user |-> r.to, connector |-> channel])
                        ELSE @]
           first_delivery ==
               /\ r.err = None
               /\ \A n \in 1..Len(wk[w].attempts) : ~wk[w].attempts[n].ok
       IN  /\ wk' = [wk EXCEPT ![w] =
                IF r.err # None THEN [rec EXCEPT !.pc = "raised", !.err = r.err]
                ELSE [rec EXCEPT !.sent = TRUE, !.i = @ + 1]]
           /\ hist' = IF first_delivery /\ wk[w].began_active
                           /\ hist.active_sends < MaxSends
                       THEN [hist EXCEPT !.active_sends = @ + 1]
                       ELSE hist
    /\ UNCHANGED <<sched, now, job, sg, lastEval, deactivated, world, out, env, tpl, conn>>

\* the end of a channel with the window evaluated again after the update of
\* last_sent_at, the channels left being dropped if it reports not eligible
FinishChannel_reevaluating(w) ==
    /\ wk[w].pc = "send"
    /\ Head(wk[w].channels) = "slack" \/ wk[w].i > Len(wk[w].gaia_users_models)
    /\ LET sent == wk[w].sent /\ Head(wk[w].channels) # "slack"
           r    == job_within_notification_window(
                        [Self(w) EXCEPT !.last_sent_at = IF sent THEN now ELSE @],
                        job, now)
           rest == IF r.err = None /\ r.within THEN Tail(wk[w].channels) ELSE <<>>
       IN  /\ sched' = IF sent
                        THEN save(sched, [Self(w) EXCEPT !.last_sent_at = now],
                                  {"last_sent_at"})
                        ELSE sched
           /\ wk' = [wk EXCEPT ![w] =
                [@ EXCEPT !.last_sent_at = IF sent THEN now ELSE @,
                          !.updated = @ \/ sent,
                          !.evaluations = @ + 1,
                          !.channels = rest,
                          !.i = 1,
                          !.sent = FALSE,
                          !.pc = IF rest = <<>> THEN "done" ELSE "send"]]
    /\ UNCHANGED <<now, job, sg, lastEval, deactivated, world, out, env, tpl, conn, hist>>

\* the end of a channel: `if sent: self.set_last_sent_at()` after the loop of
\* the email and SMS channels, up to line 907, which reads the clock into
\* the instance; the row is written by the next step, and the clock or
\* another call may move in between.  send_slack_notifications is `pass`
FinishChannel(w) ==
    /\ wk[w].pc = "send"
    /\ Head(wk[w].channels) = "slack" \/ wk[w].i > Len(wk[w].gaia_users_models)
    /\ LET sent == wk[w].sent /\ Head(wk[w].channels) # "slack"
           rest == Tail(wk[w].channels)
       IN  wk' = [wk EXCEPT ![w] =
                IF sent
                THEN [@ EXCEPT !.last_sent_at = now, !.pc = "save"]
                ELSE [@ EXCEPT !.channels = rest,
                               !.i = 1,
                               !.pc = IF rest = <<>> THEN "done" ELSE "send"]]
    /\ UNCHANGED <<sched, now, job, sg, lastEval, deactivated, world, out, env, tpl, conn, hist>>

\* set_last_sent_at, line 908: self.save(update_fields=["last_sent_at"])
\* writes the instant read at line 907 to the row, whatever the clock shows
\* and whatever the row holds by now; the channel's method then returns
SaveLastSentAt(w) ==
    /\ wk[w].pc = "save"
    /\ LET rest == Tail(wk[w].channels)
       IN  /\ sched' = save(sched, Self(w), {"last_sent_at"})
           /\ wk' = [wk EXCEPT ![w] =
                [@ EXCEPT !.updated = TRUE,
                          !.channels = rest,
                          !.i = 1,
                          !.sent = FALSE,
                          !.pc = IF rest = <<>> THEN "done" ELSE "send"]]
    /\ UNCHANGED <<now, job, sg, lastEval, deactivated, world, out, env, tpl, conn, hist>>

\* the clock of the dispatch specifications
TickDispatch == now < MaxDispatchDays * Day /\ Tick

DispatchStartTriggers ==
    { "After job saved", "Before job start", "After photos available" }

\* the cadence units of the dispatch specifications: a valid one, and one that
\* is none of the choices (CharField choices are not enforced by save())
DispatchUnits == { "days", "fortnights" }

InitDispatch ==
    /\ \E recurring \in BOOLEAN, unit \in DispatchUnits, count \in 1..MaxCount,
          start_trigger \in DispatchStartTriggers,
          end_trigger \in {None, "Until job start"},
          F \in SUBSET {"employees", "subjects_not_booked"},
          C \in SUBSET ConnectorNames :
            /\ recurring \/ (unit = "days" /\ count = 1)
            /\ sched = MkSchedule(recurring, unit, count, start_trigger,
                                  end_trigger, NoTime, F, C)
    /\ \E nEmp \in 0..MaxEmployees :
            /\ world = MkWorld(nEmp, 1, 0, "Person", FALSE, 1, FALSE, TRUE, TRUE, TRUE)
            /\ \E fails \in SUBSET (1..nEmp) :
                /\ fails # {} => sched.smtp_connector
                /\ env = [NoFailures EXCEPT !.smtp_fails = fails]
    /\ now = 0
    /\ job = TheJob
    /\ \E photos_available \in BOOLEAN :
            /\ ~photos_available => sched.start_trigger = "After photos available"
            /\ sg = TheSubjectGroup(photos_available)
    /\ lastEval = NoEval
    /\ deactivated = FALSE
    /\ out = NoOut
    /\ wk = [w \in Workers |-> IdleWorker]
    /\ tpl \in DispatchTemplates
    /\ tpl # TheTemplate => (sched.smtp_connector /\ env.smtp_fails = {})
    /\ conn = NoCalls
    /\ hist = NoHistory

\* calls of run_notification_schedule one after the other (by worker 1)
Next ==
    \/ TickDispatch
    \/ Begin(1, FALSE)
    \/ RunJob(1)
    \/ RunSubjectGroup(1)
    \/ Deliver(1)
    \/ FinishChannel(1)
    \/ SaveLastSentAt(1)

Spec == InitDispatch /\ [][Next]_vars

\* SpecConcurrent: two calls of run_notification_schedule on one
\* schedule, their steps interleaved; nothing in the code serialises them
InitConcurrent ==
    /\ \E recurring \in BOOLEAN, count \in 1..MaxCount :
            /\ recurring \/ count = 1
            /\ sched = MkSchedule(recurring, "days", count, "After job saved",
                                  "Until job start", NoTime, {"employees"},
                                  {"smtp_connector"})
    /\ \E nEmp \in 1..MaxEmployees :
            world = MkWorld(nEmp, 1, 0, "Person", FALSE, 1, FALSE, TRUE, TRUE, TRUE)
    /\ env = NoFailures
    /\ now = 0
    /\ job = TheJob
    /\ sg = TheSubjectGroup(TRUE)
    /\ lastEval = NoEval
    /\ deactivated = FALSE
    /\ out = NoOut
    /\ wk = [w \in Workers |-> IdleWorker]
    /\ tpl = TheTemplate
    /\ conn = NoCalls
    /\ hist = NoHistory

NextConcurrent ==
    \/ TickDispatch
    \/ \E w \in Workers :
        \/ Begin(w, TRUE)
        \/ RunJob(w)
        \/ RunSubjectGroup(w)
        \/ Deliver(w)
        \/ FinishChannel(w)
        \/ SaveLastSentAt(w)

SpecConcurrent == InitConcurrent /\ [][NextConcurrent]_vars

-----------------------------------------------------------------------------
(* SpecContext: dynamic_context applied to every context value of at most   *)
(* MaxRefLen words, against the kinds of bundle the audience resolvers emit  *)

\* the empty dict, None, a bundle of an employee of a job, of a contact of a
\* client of a job, of a subject of a subject group without job, of a subject group's
\* client; no resolver emits a bundle with a session or a subject
ContextBundles ==
    { NoBundle, NoneBundle,
      Bundle(1, NoId, 1, NoId, 1, NoId, NoId),
      Bundle(11, NoId, 1, NoId, NoId, 1, NoId),
      Bundle(31, 1, NoId, NoId, NoId, NoId, NoId),
      Bundle(11, 1, NoId, NoId, NoId, 1, NoId) }

ContextValues == UNION { [1..n -> Words] : n \in 0..MaxRefLen }

InitContext ==
    /\ \E n \in 1..MaxContextKeys :
       \E items \in [1..n -> ContextValues], b \in ContextBundles :
            tpl = [NoTemplate EXCEPT
                     !.context = [i \in 1..n |->
                                    [key |-> ContextKeys[i], value |-> items[i]]],
                     !.gaia_user_models = b]
    /\ sched = MkSchedule(FALSE, "days", 1, "After job saved", None, NoTime, {}, {})
    /\ now = 0
    /\ job = TheJob
    /\ sg = TheSubjectGroup(FALSE)
    /\ lastEval = NoEval
    /\ deactivated = FALSE
    /\ world = NoWorld
    /\ out = NoOut
    /\ wk = [w \in Workers |-> IdleWorker]
    /\ env = NoFailures
    /\ conn = NoCalls
    /\ hist = NoHistory

\* contextual_notification_template.dynamic_context(gaia_user_models)
DynamicContext ==
    /\ tpl.op = "none"
    /\ LET r == dynamic_context(tpl.context, tpl.gaia_user_models)
       IN  tpl' = [tpl EXCEPT !.op = "dynamic_context", !.err = r.err,
                              !.resolved = r.context]
    /\ UNCHANGED <<sched, now, job, sg, lastEval, deactivated, world, out, wk, env, conn, hist>>

NextContext == DynamicContext

SpecContext == InitContext /\ [][NextContext]_vars

-----------------------------------------------------------------------------
(* SpecConnector: the connectors' send_contextual_template_notification     *)
(* called directly, up to MaxCalls times, with every kind of argument        *)

Channels == { None, "general" }

InitConnector ==
    /\ \E smtp_fails \in SUBSET (1..MaxEmployees),
          twilio_fails \in SUBSET (1..MaxEmployees), slack_down \in BOOLEAN :
            env = [smtp_fails |-> smtp_fails, twilio_fails |-> twilio_fails,
                   slack_down |-> slack_down]
    /\ conn = NoCalls
    /\ tpl = NoTemplate
    /\ hist = NoHistory
    /\ sched = MkSchedule(FALSE, "days", 1, "After job saved", None, NoTime, {},
                          ConnectorNames)
    /\ now = 0
    /\ job = TheJob
    /\ sg = TheSubjectGroup(FALSE)
    /\ lastEval = NoEval
    /\ deactivated = FALSE
    /\ world = NoWorld
    /\ out = NoOut
    /\ wk = [w \in Workers |-> IdleWorker]

\* the call and what it left behind, appended to conn
Called(connector, gaia_user, channel, err, sent, notified) ==
    [ calls |-> Append(conn.calls,
                    [connector |-> connector,
                     gaia_user |-> gaia_user, channel |-> channel,
                     err |-> err, sent |-> sent, notified |-> notified]),
      notifications |-> IF notified
                        THEN Append(conn.notifications,
                                    Notification(gaia_user, connector))
                        ELSE conn.notifications ]

\* slack_connector.send_contextual_template_notification(slack_client,
\* template, gaia_user=..., channel=...)
SlackSend ==
    /\ Len(conn.calls) < MaxCalls
    /\ \E gaia_user \in {NoId} \cup (1..MaxEmployees), channel \in Channels,
          template \in DispatchTemplates :
        LET r == slack_send_contextual_template_notification(
                    env, template, gaia_user, channel)
        IN  conn' = Called("slack", gaia_user, channel, r.err, r.sent, r.notified)
    /\ UNCHANGED <<sched, now, job, sg, lastEval, deactivated, world, out, wk, env, tpl, hist>>

\* twilio_connector.send_contextual_template_notification(twilio_client,
\* gaia_user, template)
TwilioSend ==
    /\ Len(conn.calls) < MaxCalls
    /\ \E gaia_user \in 1..MaxEmployees, template \in DispatchTemplates :
        LET r == twilio_send_contextual_template_notification(
                    env, [kind |-> "Client", id |-> 1],
                    [kind |-> "GaiaUser", id |-> gaia_user], template)
        IN  conn' = Called("twilio", gaia_user, None, r.err, r.err = None,
                           r.notified)
    /\ UNCHANGED <<sched, now, job, sg, lastEval, deactivated, world, out, wk, env, tpl, hist>>

\* smtp_connector.send_contextual_template_notification(gaia_users_models,
\* template)
SmtpSend ==
    /\ Len(conn.calls) < MaxCalls
    /\ \E gaia_user \in {NoKey, NoId} \cup (1..MaxEmployees),
          template \in DispatchTemplates :
        LET gaia_users_models ==
                Bundle(gaia_user, NoId, 1, NoId, NoId, NoId, NoId)
            r == smtp_send_contextual_template_notification(
                    env, gaia_users_models, template)
        IN  conn' = Called("smtp",
                           get(gaia_users_models, "gaia_user"),
                           None, r.err, r.err = None, r.notified)
    /\ UNCHANGED <<sched, now, job, sg, lastEval, deactivated, world, out, wk, env, tpl, hist>>

NextConnector == SlackSend \/ TwilioSend \/ SmtpSend

SpecConnector == InitConnector /\ [][NextConnector]_vars

-----------------------------------------------------------------------------
(* Claims about the trigger window (SpecWindow) *)

\* started and not ended, by the triggers of the root kind last evaluated
WindowOpen ==
    IF lastEval.root = "job"
    THEN job_after_start_trigger(sched, job, now)
         /\ ~job_after_end_trigger(sched, job, now)
    ELSE sg_after_start_trigger(sched, sg, now)
         /\ ~sg_after_end_trigger(sched, sg, now)

\* now - last_sent_at < cadence, the cadence being count x unit
SentWithinCadence ==
    /\ sched.last_sent_at # NoTime
    /\ now - sched.last_sent_at
         < timedelta(sched.recurrence_delta, sched.recurrence_delta_count)

\* C2: window monotonicity.  For a non-recurring schedule and either root
\* kind, once an evaluation has set active to false, every evaluation made
\* afterwards, at the same or a later instant, reports not eligible.
C2_WindowMonotonicity ==
    (~sched.recurring /\ lastEval.root # "none" /\ lastEval.after)
        => ~lastEval.within

\* C3: recurrence spacing.  For a recurring schedule whose window is open
\* (started and not ended), for either root kind, an evaluation reports not
\* eligible when last_sent_at is set and now - last_sent_at < cadence, and
\* eligible otherwise.
C3_RecurrenceSpacing ==
    (sched.recurring /\ lastEval.root # "none" /\ lastEval.err = None /\ WindowOpen)
        => (lastEval.within <=> ~SentWithinCadence)

-----------------------------------------------------------------------------
(* Claims about the audience resolvers (SpecAudience) *)

NoDuplicates(list) ==
    \A i, k \in 1..Len(list) : list[i] = list[k] => i = k

\* the bundles the resolver last applied was asked to emit
Requested ==
    IF out.op = "job" THEN job_calls(sched, world, 1)
    ELSE IF out.op = "subject_group" THEN sg_calls(sched, world, 1)
    ELSE <<>>

\* C8: dedup invariant.  The sequence the audience resolver returns never
\* holds two bundles equal in all seven slots, and of two bundles with the
\* same recipient that differ in any other slot, both are kept: every bundle
\* asked for is in the sequence returned.
C8_DedupInvariant ==
    out.op # "none" =>
        /\ out.err = None
        /\ NoDuplicates(out.list)
        /\ \A i \in 1..Len(Requested) : Contains(out.list, Requested[i])

OnlyFilter(name) ==
    \A f \in FilterNames : sched[f] <=> (f = name)

\* C10: for a subject group with no linked job and a schedule with only
\* subjects_not_booked set, the subject-group resolver emits exactly one
\* bundle per subject of the group, with the subject's recipient, the subject
\* and the subject group, and with no session and no job.
C10_UnbookedSubjectsWithoutJob ==
    (out.op = "subject_group" /\ world.jobs[1] = <<>>
        /\ OnlyFilter("subjects_not_booked"))
    => /\ out.err = None
       /\ Len(out.list) = Len(world.subjects[1])
       /\ \A i \in 1..Len(world.subjects[1]) :
            LET subject == world.subjects[1][i]
            IN  out.list[i] = Bundle(world.subj_user[subject], 1, NoId, NoId,
                                     NoId, NoId, subject)

-----------------------------------------------------------------------------
(* Claims about dispatch (Spec, SpecConcurrent) *)

Finished(w) == wk[w].pc \in {"done", "raised"}

\* the call of worker w was given a job only
JobOnly(w) == wk[w].job /\ ~wk[w].subject_group

Attempted(w, channel, k) ==
    \E n \in 1..Len(wk[w].attempts) :
        wk[w].attempts[n].channel = channel /\ wk[w].attempts[n].bundle = k

Delivered(w, channel, k) ==
    \E n \in 1..Len(wk[w].attempts) :
        /\ wk[w].attempts[n].channel = channel
        /\ wk[w].attempts[n].bundle = k
        /\ wk[w].attempts[n].ok

AnyDelivered(w) ==
    \E n \in 1..Len(wk[w].attempts) : wk[w].attempts[n].ok

DeliveredToAll(w, channel) ==
    \A k \in 1..Len(wk[w].gaia_users_models) : Delivered(w, channel, k)

Cadence == timedelta(sched.recurrence_delta, sched.recurrence_delta_count)

\* C1: two calls on the same recurring schedule that run concurrently never
\* both read the same stale last_sent_at, both pass the recurrence-spacing
\* check and both deliver within one cadence interval.
C1_NoConcurrentDoubleSend ==
    ~ /\ sched.recurring
      /\ wk[1].loaded_last_sent_at = wk[2].loaded_last_sent_at
      /\ wk[1].spacing = "passed" /\ wk[2].spacing = "passed"
      /\ \E n \in 1..Len(wk[1].attempts), m \in 1..Len(wk[2].attempts) :
            LET a == wk[1].attempts[n]
                b == wk[2].attempts[m]
            IN  a.ok /\ b.ok /\ a.at - b.at < Cadence /\ b.at - a.at < Cadence

\* C4: per-recipient failure isolation.  Within one channel of one dispatch,
\* when the delivery for one bundle fails, delivery is still attempted for
\* every remaining bundle of the audience.
C4_RecipientIsolation ==
    Finished(1) =>
        \A n \in 1..Len(wk[1].attempts) :
            LET a == wk[1].attempts[n]
            IN  ~a.ok => \A k \in (a.bundle + 1)..Len(wk[1].gaia_users_models) :
                            Attempted(1, a.channel, k)

\* the connector of the channel fails for every recipient of the audience
EmailFailsForAll(w) ==
    \A k \in 1..Len(wk[w].gaia_users_models) :
        wk[w].gaia_users_models[k].gaia_user \in env.smtp_fails

\* the SMS provider fails for no recipient of the audience
SmsProviderHealthy(w) ==
    \A k \in 1..Len(wk[w].gaia_users_models) :
        wk[w].gaia_users_models[k].gaia_user \notin env.twilio_fails

\* C5: channel isolation.  With two channels configured, when one channel's
\* connector fails for every recipient and the other channel's succeeds for
\* all, the other channel still delivers to every recipient and last_sent_at
\* is updated.
C5_ChannelIsolation ==
    ( /\ Finished(1) /\ JobOnly(1)
      /\ wk[1].gaia_users_models # <<>>
      /\ sched.smtp_connector /\ sched.twilio_connector
      /\ EmailFailsForAll(1) /\ SmsProviderHealthy(1) )
    => (DeliveredToAll(1, "sms") /\ wk[1].updated)

\* C6: a dispatch sets last_sent_at exactly when at least one delivery of the
\* dispatch succeeded, also when other deliveries on the channel failed, and
\* leaves it unchanged when none succeeded.
C6_LastSentIffDelivered ==
    Finished(1) =>
        /\ wk[1].updated <=> AnyDelivered(1)
        /\ ~wk[1].updated => sched.last_sent_at = wk[1].loaded_last_sent_at

\* no email, SMS or chat connector is configured
NoConnector == \A c \in ConnectorNames : ~sched[c]

\* C7 as claimed: dispatching a schedule with no connector configured attempts
\* no delivery, creates no Notification and leaves both active and
\* last_sent_at as they were.
C7_NoConnectorNoOp ==
    (NoConnector /\ Finished(1)) =>
        /\ wk[1].attempts = <<>>
        /\ wk[1].notifications = <<>>
        /\ sched.last_sent_at = wk[1].loaded_last_sent_at
        /\ sched.active = wk[1].began_active

\* C7 as amended: dispatching a schedule with no connector configured attempts
\* no delivery, creates no Notification and leaves last_sent_at as it was
\* (the window evaluation may still set active to false).
C7_NoConnectorNoSend ==
    (NoConnector /\ wk[1].pc # "idle") =>
        /\ wk[1].attempts = <<>>
        /\ wk[1].notifications = <<>>
        /\ ~wk[1].updated
        /\ sched.last_sent_at = wk[1].loaded_last_sent_at

\* a dispatch without connectors that found the window open and an audience,
\* sent nothing, and deactivated the schedule
C7_Witness ==
    /\ NoConnector /\ wk[1].pc = "done"
    /\ wk[1].within /\ Len(wk[1].gaia_users_models) = 2
    /\ wk[1].began_active /\ ~sched.active

\* the schedule of C9: non-recurring, 'After job saved', no end trigger, only
\* the employees filter
C9_Schedule ==
    /\ ~sched.recurring
    /\ sched.start_trigger = "After job saved"
    /\ sched.end_trigger = None /\ sched.end_at = NoTime
    /\ OnlyFilter("employees")

\* send_email_notifications has returned, every bundle delivered
EmailSendSucceeded(w) ==
    /\ wk[w].gaia_users_models # <<>>
    /\ DeliveredToAll(w, "email")
    /\ \/ wk[w].pc = "done"
       \/ wk[w].pc \in {"send", "save", "raised"} /\ Head(wk[w].channels) # "email"

\* C9: for the schedule of C9 and a job with n distinct employees, dispatch
\* resolves exactly n bundles, the i-th carrying the job and the i-th
\* employee, and after a successful email send last_sent_at is set and active
\* is false.
C9_EmployeesScenario ==
    ( /\ C9_Schedule /\ JobOnly(1)
      /\ wk[1].pc \in {"send", "save", "done", "raised"} ) =>
        /\ wk[1].err # "TypeError"
        /\ Len(wk[1].gaia_users_models) = Len(world.employees[1])
        /\ \A i \in 1..Len(world.employees[1]) :
                LET employee == world.employees[1][i]
                IN  wk[1].gaia_users_models[i]
                      = Bundle(world.emp_user[employee], NoId, 1, NoId,
                               employee, NoId, NoId)
        /\ (sched.smtp_connector /\ EmailSendSucceeded(1)) =>
                (sched.last_sent_at # NoTime /\ ~sched.active)

\* the scenario with two employees, both emailed
C9_Witness ==
    /\ C9_Schedule /\ JobOnly(1) /\ wk[1].pc = "done"
    /\ Len(world.employees[1]) = 2
    /\ EmailSendSucceeded(1)
    /\ sched.last_sent_at # NoTime /\ ~sched.active

-----------------------------------------------------------------------------
(* Claims about the template context (SpecContext) *)

\* the context value is a reference to a field of entity kind k: the marker,
\* then the kind
NamesKind(context_value, k) ==
    /\ Len(context_value) >= 2
    /\ context_value[1] = "@"
    /\ context_value[2] = EntityKinds[k]

\* the resolved context holds None under the key
ResolvedNone(key) ==
    \E i \in 1..Len(tpl.resolved) :
        tpl.resolved[i].key = key /\ tpl.resolved[i].value = NoValue

\* C11: context null-safety.  For every context and every bundle, context
\* resolution does not raise, and a reference whose entity kind has no slot
\* in the bundle resolves to None under its key.
C11_ContextNullSafety ==
    tpl.op = "dynamic_context" =>
        /\ tpl.err = None
        /\ \A i \in 1..Len(tpl.context), k \in 1..Len(EntityKinds) :
              ( /\ NamesKind(tpl.context[i].value, k)
                /\ get(tpl.gaia_user_models, SlotNames[k]) = NoId )
              => ResolvedNone(tpl.context[i].key)

-----------------------------------------------------------------------------
(* Claims about the start and end conditions (SpecWindow) *)

\* the start condition of the schedule for the root kind last evaluated; a
\* start trigger of the other root kind never holds
Started ==
    IF lastEval.root = "job"
    THEN \/ sched.start_trigger = "Before job start" /\ now < job.start_time
         \/ sched.start_trigger = "After job end" /\ now > job.end_time
         \/ sched.start_trigger \in {"After job saved", "After job location changed"}
    ELSE \/ sched.start_trigger = "After photos available" /\ sg.photos_available
         \/ sched.start_trigger = "After start date on subject group"
                /\ now > sg.start_time
         \/ sched.start_trigger = "After end date on subject group"
                /\ now > sg.end_time

\* the explicit end_at is set and passed
EndAtReached == sched.end_at # NoTime /\ now > sched.end_at

\* the end trigger of the root kind last evaluated is configured and reached
EndTriggerReached ==
    IF lastEval.root = "job"
    THEN sched.end_trigger = "Until job start" /\ now > job.start_time
    ELSE sched.end_trigger = "End date on subject group" /\ now > sg.end_time

Ended == EndAtReached \/ EndTriggerReached

\* C12: when the start condition does not hold at evaluation time, for either
\* root kind and every start trigger, the evaluation reports not eligible and
\* leaves active as it was.
C12_NotStartedNotEligible ==
    (lastEval.root # "none" /\ ~Started) =>
        /\ lastEval.err = None
        /\ ~lastEval.within
        /\ ~lastEval.deactivate

\* a job evaluated before it ended under 'After job end', and one evaluated
\* under a start trigger of subject groups that holds for the subject group
C12_Witness ==
    /\ lastEval.root = "job" /\ ~lastEval.within /\ sched.active
    /\ \/ sched.start_trigger = "After job end" /\ now = job.end_time
       \/ sched.start_trigger = "After photos available" /\ sg.photos_available

\* C13: whenever the end condition of a started schedule holds at evaluation
\* time, for either root kind, the evaluation reports not eligible.
C13_EndedNotEligible ==
    (lastEval.root # "none" /\ lastEval.err = None /\ Started /\ Ended) =>
        ~lastEval.within

\* C14: an evaluation sets active to false only if the schedule has started
\* and (a) its end condition is reached and it is non-recurring, or (b) its
\* explicit end_at is reached, or (c) it is non-recurring, not ended and
\* last_sent_at is already set.
C14_DeactivationOnlyWhenDue ==
    (lastEval.root # "none" /\ lastEval.deactivate) =>
        /\ Started
        /\ \/ Ended /\ ~sched.recurring
           \/ EndAtReached
           \/ ~sched.recurring /\ ~Ended /\ sched.last_sent_at # NoTime

-----------------------------------------------------------------------------
(* Claims about what the engine writes to the schedule (SpecConcurrent) *)

\* the call of worker w saves active = False in this step
SavesInactive(w) == ~wk[w].saved_inactive /\ wk'[w].saved_inactive

\* C15: across evaluations and dispatches, overlapping ones included, no
\* attribute of the schedule other than active and last_sent_at changes,
\* active never goes from false to true, and saving active = False on a
\* schedule that is already inactive raises nothing and changes nothing.
C15_OnlyActiveAndLastSentAt ==
    [][ /\ \A f \in DOMAIN sched \ {"active", "last_sent_at"} : sched'[f] = sched[f]
        /\ ~sched.active => ~sched'.active
        /\ \A w \in Workers :
              (~sched.active /\ SavesInactive(w)) =>
                    (sched' = sched /\ wk'[w].err = None) ]_vars

\* both calls have saved active = False, the later one on an inactive
\* schedule, one of them has set last_sent_at, and neither raised
C15_Witness ==
    /\ \A w \in Workers :
            wk[w].saved_inactive /\ wk[w].err = None /\ wk[w].pc = "done"
    /\ ~sched.active
    /\ sched.last_sent_at # NoTime

-----------------------------------------------------------------------------
(* Claims about the audience of a dispatch (Spec) *)

\* the call of worker w was given a subject group only
SubjectGroupOnly(w) == wk[w].subject_group /\ ~wk[w].job

\* the windows of the call of worker w have been evaluated and found eligible
Eligible(w) ==
    /\ wk[w].pc \in {"send", "save", "done", "raised"}
    /\ wk[w].within
    /\ wk[w].spacing # "error"

\* C16: a dispatch with a subject-group root whose window is eligible resolves
\* its audience by the subject-group algorithm: the bundles are those of
\* gaia_users_models_for_subject_group, whenever that algorithm yields any.
C16_SubjectGroupAudience ==
    LET expected == gaia_users_models_for_subject_group(sched, world, 1)
    IN  (SubjectGroupOnly(1) /\ Eligible(1) /\ expected.err = None)
            => wk[1].gaia_users_models = expected.list

-----------------------------------------------------------------------------
(* Claims about the subject filters of a job (SpecAudience) *)

\* subject x is booked on job 1
BookedOnJob(x) == world.session[1][x] # NoId

\* the recipients the subject filters set ask for, for subject x
SubjectFilterRecipients(x) ==
    (IF \/ sched.subjects_booked /\ BookedOnJob(x)
        \/ sched.subjects_not_booked /\ ~BookedOnJob(x)
     THEN {world.subj_user[x]} ELSE {})
    \cup
    (IF \/ sched.subjects_parents_booked /\ BookedOnJob(x)
        \/ sched.subjects_parents_not_booked /\ ~BookedOnJob(x)
     THEN {world.parents[x][k] : k \in 1..Len(world.parents[x])} ELSE {})

\* C17: for a job root, resolution does not raise, and every bundle a subject
\* filter emits holds the subject with its job and subject group, and a
\* session exactly when the subject is booked on the job.
C17_JobSubjectBundles ==
    out.op = "job" =>
        /\ out.err = None
        /\ \A g \in 1..Len(world.subject_groups[1]) :
           \A i \in 1..Len(world.subjects[world.subject_groups[1][g]]) :
              LET subject_group == world.subject_groups[1][g]
                  x == world.subjects[subject_group][i]
              IN  \A gaia_user \in SubjectFilterRecipients(x) :
                    /\ Contains(out.list,
                            Bundle(gaia_user, subject_group, 1,
                                   world.session[1][x], NoId, NoId, x))
                    /\ \A n \in 1..Len(out.list) :
                          (out.list[n].gaia_user = gaia_user
                           /\ out.list[n].subject = x)
                          => (out.list[n].session # NoId <=> BookedOnJob(x))

-----------------------------------------------------------------------------
(* Claims about the Notification records (SpecConnector) *)

\* the connector calls that delivered a message
Deliveries == { n \in 1..Len(conn.calls) : conn.calls[n].sent /\ conn.calls[n].err = None }

-----------------------------------------------------------------------------
(* Claims about the chat channel and malformed configuration (Spec) *)

\* C19: for an eligible schedule with a chat connector and a non-empty
\* audience, a dispatch that completes has attempted a chat delivery for
\* every bundle.
C19_ChatChannel ==
    ( /\ sched.slack_connector
      /\ Eligible(1) /\ wk[1].pc = "done"
      /\ wk[1].gaia_users_models # <<>> )
    => \A k \in 1..Len(wk[1].gaia_users_models) : Attempted(1, "slack", k)

\* the cadence unit is none of seconds, minutes, hours, days, weeks
MalformedCadence == sched.recurrence_delta \notin recurrence_delta_choices

\* C20: with a malformed cadence unit, a dispatch fails with an error before
\* any delivery attempt, whether last_sent_at is set or not.
C20_MalformedCadenceFails ==
    (MalformedCadence /\ wk[1].pc \in {"send", "save", "done", "raised"}) =>
        /\ wk[1].pc = "raised"
        /\ wk[1].err = "UnboundLocalError"
        /\ wk[1].attempts = <<>>

-----------------------------------------------------------------------------
(* Claims about what one dispatch does (Spec) *)

\* the evaluator of the dispatch of worker w raised instead of reporting
EvaluatorFailed(w) == wk[w].err = "UnboundLocalError"

\* the bundles the dispatch of worker w is to notify: those of each root it
\* was given whose own window the evaluator reported open
ExpectedAudience(w) ==
    (IF wk[w].job /\ wk[w].job_within
     THEN job_gaia_users_models(sched, world, 1).list ELSE <<>>)
    \o (IF wk[w].subject_group /\ wk[w].within
           /\ (wk[w].job => wk[w].evaluations = 2)
        THEN gaia_users_models_for_subject_group(sched, world, 1).list
        ELSE <<>>)

\* C21: a dispatch whose evaluator reports no root eligible, or whose eligible
\* roots have an empty audience, returns without error, having attempted no
\* delivery, recorded no Notification and left last_sent_at as it was.
C21_NothingToDoIsNoOp ==
    ( /\ Finished(1)
      /\ ~EvaluatorFailed(1)
      /\ wk[1].job_within => job_gaia_users_models(sched, world, 1).err = None
      /\ wk[1].subject_group =>
            gaia_users_models_for_subject_group(sched, world, 1).err = None
      /\ ExpectedAudience(1) = <<>> )
    => /\ wk[1].pc = "done"
       /\ wk[1].err = None
       /\ wk[1].attempts = <<>>
       /\ wk[1].notifications = <<>>
       /\ ~wk[1].updated
       /\ sched.last_sent_at = wk[1].loaded_last_sent_at

-----------------------------------------------------------------------------
(* Claims about the recurrence check of the two evaluators (SpecWindow) *)

\* the evaluation last made called within_recurring_notification_window
SpacingConsulted == lastEval.spacing # "none"

\* C22: root-kind asymmetry of the recurrence check.  The evaluation of a job
\* root consults the recurrence spacing exactly when the schedule is recurring
\* and the end condition has been reached; the evaluation of a subject-group
\* root consults it exactly when the schedule is recurring and the window is
\* open (started and not ended), and never once the end condition is reached.
C22_RootKindAsymmetry ==
    /\ lastEval.root = "job" =>
         (SpacingConsulted <=> (sched.recurring /\ Started /\ Ended))
    /\ lastEval.root = "subject_group" =>
         (SpacingConsulted <=> (sched.recurring /\ Started /\ ~Ended))

\* a recurring schedule evaluated for a job root inside its window, less than
\* one cadence interval after a send: the spacing is not consulted and the
\* evaluation reports eligible
C22_Witness ==
    /\ lastEval.root = "job"
    /\ sched.recurring
    /\ Started /\ ~Ended
    /\ SentWithinCadence
    /\ ~SpacingConsulted
    /\ lastEval.within

-----------------------------------------------------------------------------
(* Claims about the delivery loops of a dispatch (Spec) *)

\* the channels send_notifications delivers through, of those configured
ConfiguredChannels ==
    { c \in {"email", "sms"} :
        \/ c = "email" /\ sched.smtp_connector
        \/ c = "sms" /\ sched.twilio_connector }

\* the attempts of the dispatch of worker w through a channel for bundle k
AttemptsFor(w, channel, k) ==
    { n \in 1..Len(wk[w].attempts) :
        wk[w].attempts[n].channel = channel /\ wk[w].attempts[n].bundle = k }

\* C23: in a finished dispatch of a job with an eligible window and a
\* non-empty audience, no provider failing, every bundle has exactly one
\* delivery attempt through each configured channel (email, SMS), addressed
\* to the bundle's own recipient.
C23_OneAttemptPerBundlePerChannel ==
    ( /\ Finished(1) /\ JobOnly(1) /\ Eligible(1)
      /\ wk[1].gaia_users_models # <<>>
      /\ env = NoFailures )
    => \A c \in ConfiguredChannels :
         \A k \in 1..Len(wk[1].gaia_users_models) :
            /\ Cardinality(AttemptsFor(1, c, k)) = 1
            /\ \A n \in AttemptsFor(1, c, k) :
                  wk[1].attempts[n].to = wk[1].gaia_users_models[k].gaia_user

-----------------------------------------------------------------------------
(* Claims about the audience of a subject group's own client (SpecAudience) *)

\* the client of subject group 1
OwnClient == world.sg_client[1]

\* the bundle of a recipient reached through subject group 1's own client:
\* client and subject group attached, no job
OwnClientBundle(gaia_user) ==
    Bundle(gaia_user, 1, NoId, NoId, NoId, OwnClient, NoId)

\* C24: the audience resolved for a subject-group root treats the group's own
\* client by the category rules of a job's clients: a Person client with
\* clients_persons set has a bundle for the client's own recipient; a School,
\* Commercial or Other client with the matching filter set has one bundle for
\* each of its contacts and none for the client's own recipient.
C24_OwnClientByCategory ==
    (out.op = "subject_group" /\ out.err = None /\ OwnClient # NoId) =>
        /\ (sched.clients_persons /\ world.category[OwnClient] = "Person") =>
              Contains(out.list, OwnClientBundle(world.client_user[OwnClient]))
        /\ contacts_category(sched, world.category[OwnClient]) =>
              /\ \A n \in 1..Len(world.contacts[OwnClient]) :
                    Contains(out.list,
                             OwnClientBundle(world.contacts[OwnClient][n]))
              /\ ~Contains(out.list,
                           OwnClientBundle(world.client_user[OwnClient]))

-----------------------------------------------------------------------------
(* Claims about the entity a context reference is read from (SpecContext) *)

\* a reference <EntityKind>.<field>: the marker, kind k, a dot and one word
IsReference(context_value, k) ==
    /\ Len(context_value) = 4
    /\ NamesKind(context_value, k)
    /\ context_value[3] = "."
    /\ context_value[4] \notin {"@", "."}

\* the value is a literal, or a reference to the kind its prefix names
WellFormed(context_value) ==
    \/ ~In("@", context_value)
    \/ \E k \in 1..Len(EntityKinds) : IsReference(context_value, k)

\* the slot of the bundle for the kind named by the prefix of a reference
PrefixSlot(context_value) ==
    SlotNames[CHOOSE k \in 1..Len(EntityKinds) : IsReference(context_value, k)]

\* the reference names a field the entity in its prefix slot does not have
UnknownField(context_value, gaia_user_models) ==
    /\ In("@", context_value)
    /\ get(gaia_user_models, PrefixSlot(context_value)) # NoId
    /\ <<context_value[4]>> \notin model_fields

\* what a well-formed value resolves to: itself if a literal, None if the
\* slot of its prefix is absent, else the field of the entity in that slot
PrefixValue(context_value, gaia_user_models) ==
    IF ~In("@", context_value)
    THEN [tag |-> "literal", text |-> context_value, model |-> NoId]
    ELSE IF get(gaia_user_models, PrefixSlot(context_value)) = NoId
    THEN NoValue
    ELSE [tag |-> "field", text |-> <<context_value[4]>>,
          model |-> get(gaia_user_models, PrefixSlot(context_value))]

\* C25: for a context of literals and references <EntityKind>.<field> naming
\* fields that exist, context resolution returns one entry per key: a literal
\* copied verbatim, a reference read from the bundle slot of the entity kind
\* named by its prefix, also when the field name is the name of another kind.
C25_ReadFromPrefixKind ==
    ( /\ tpl.op = "dynamic_context"
      /\ \A i \in 1..Len(tpl.context) :
            /\ WellFormed(tpl.context[i].value)
            /\ ~UnknownField(tpl.context[i].value, tpl.gaia_user_models) )
    => /\ tpl.err = None
       /\ Len(tpl.resolved) = Len(tpl.context)
       /\ \A i \in 1..Len(tpl.context) :
            tpl.resolved[i] =
                [key   |-> tpl.context[i].key,
                 value |-> PrefixValue(tpl.context[i].value, tpl.gaia_user_models)]

-----------------------------------------------------------------------------
(* Claims about filters without related entities (SpecAudience) *)

\* no audience filter of the schedule is set
NoFilter == \A f \in FilterNames : ~sched[f]

\* the jobs the resolver last called goes through: job 1, or the jobs linked
\* to subject group 1
RootJobs ==
    IF out.op = "job" THEN {1}
    ELSE { world.jobs[1][n] : n \in 1..Len(world.jobs[1]) }

\* the clients the resolver last called goes through: the clients of these
\* jobs and, for subject group 1, the group's own client when it has one
RootClients ==
    UNION { { world.clients[j][i] : i \in 1..Len(world.clients[j]) } :
            j \in RootJobs }
    \cup (IF out.op = "subject_group" /\ OwnClient # NoId THEN {OwnClient} ELSE {})

\* the subjects the resolver last called goes through
RootSubjects ==
    IF out.op = "job"
    THEN UNION { { world.subjects[world.subject_groups[1][g]][i] :
                     i \in 1..Len(world.subjects[world.subject_groups[1][g]]) } :
                 g \in 1..Len(world.subject_groups[1]) }
    ELSE { world.subjects[1][i] : i \in 1..Len(world.subjects[1]) }

\* these subjects that are booked on one of these jobs, and those that are
\* not booked on one of them or have no job to be booked on
BookedSubjects ==
    { x \in RootSubjects : \E j \in RootJobs : world.session[j][x] # NoId }

UnbookedSubjects ==
    { x \in RootSubjects :
        RootJobs = {} \/ \E j \in RootJobs : world.session[j][x] = NoId }

\* the root has an entity related to it that filter f is about: an employee;
\* a Person client; a contact of a School client, or of a Commercial or Other
\* client; a booked or unbooked subject; a parent of such a subject
HasRelated(f) ==
    CASE f = "employees" -> \E j \in RootJobs : world.employees[j] # <<>>
      [] f = "clients_persons" ->
            \E client \in RootClients : world.category[client] = "Person"
      [] f = "clients_schools" ->
            \E client \in RootClients :
                world.category[client] = "School" /\ world.contacts[client] # <<>>
      [] f = "clients_commercial_others" ->
            \E client \in RootClients :
                /\ world.category[client] \in {"Commercial", "Other"}
                /\ world.contacts[client] # <<>>
      [] f = "subjects_booked" -> BookedSubjects # {}
      [] f = "subjects_parents_booked" ->
            \E x \in BookedSubjects : world.parents[x] # <<>>
      [] f = "subjects_not_booked" -> UnbookedSubjects # {}
      [] f = "subjects_parents_not_booked" ->
            \E x \in UnbookedSubjects : world.parents[x] # <<>>

\* every filter that is set finds no related entity of the root
NothingRelated == \A f \in FilterNames : sched[f] => ~HasRelated(f)

\* the schedule with the filters that find no related entity switched off
RelatedFiltersOnly ==
    [f \in DOMAIN sched |->
        IF f \in FilterNames THEN sched[f] /\ HasRelated(f) ELSE sched[f]]

\* what the resolver last called returns for schedule s
Resolved(s) ==
    IF out.op = "job" THEN job_gaia_users_models(s, world, 1)
    ELSE gaia_users_models_for_subject_group(s, world, 1)

\* C26: for either root kind, the audience resolved with no filter set is
\* the empty list; a filter that is set and for which the root has no
\* related entity (no employee, client, contact, subject group, subject or
\* parent) contributes no bundle and raises no error: the result is the one
\* resolved with these filters switched off, so that when no filter set
\* finds any entity the list is empty and nothing is raised.
C26_NothingRelatedNothingResolved ==
    out.op # "none" =>
        /\ NoFilter => (out.err = None /\ out.list = <<>>)
        /\ NothingRelated => (out.err = None /\ out.list = <<>>)
        /\ out.err = Resolved(RelatedFiltersOnly).err
        /\ out.list = Resolved(RelatedFiltersOnly).list

-----------------------------------------------------------------------------
(* Claims about the order of evaluation, resolution and channels (Spec) *)

\* the number of roots the dispatch of worker w was given
Roots(w) ==
    (IF wk[w].job THEN 1 ELSE 0) + (IF wk[w].subject_group THEN 1 ELSE 0)

\* C27: in one dispatch the window of each root given is evaluated exactly
\* once, before any channel is processed, and never again while the channels
\* are processed; the audience is resolved at most once for each root, once
\* for a single eligible root; and after a channel has completed and updated
\* last_sent_at, the next delivering channel still starts on the first bundle.
C27_EvaluatedOnceBeforeChannels ==
    /\ wk[1].evaluations <= Roots(1)
    /\ wk[1].resolutions <= wk[1].evaluations
    /\ (wk[1].pc \in {"send", "save", "done"} \/ wk[1].attempts # <<>>) =>
            wk[1].evaluations = Roots(1)
    /\ (Roots(1) = 1 /\ Eligible(1)) => wk[1].resolutions = 1
    /\ (Finished(1) /\ wk[1].updated /\ sched.twilio_connector) =>
            Attempted(1, "sms", 1)

\* a finished dispatch whose email channel delivered to every bundle and
\* updated last_sent_at, and whose SMS channel was then attempted
C27_Witness ==
    /\ Finished(1)
    /\ Roots(1) = 1 /\ wk[1].evaluations = 1 /\ wk[1].resolutions = 1
    /\ wk[1].gaia_users_models # <<>>
    /\ DeliveredToAll(1, "email")
    /\ wk[1].updated /\ sched.last_sent_at = now
    /\ Attempted(1, "sms", 1)

-----------------------------------------------------------------------------
(* Claims about sequences of dispatches (Spec) *)

\* C28: one-shot delivery.  For a non-recurring schedule, over the calls of
\* run_notification_schedule made one after the other for the same job and
\* subject group, at most one of the calls that began while active was true
\* performs a delivery.
C28_OneShot ==
    ~sched.recurring => hist.active_sends <= 1

\* a non-recurring schedule after a dispatch of a job that began while it was
\* active, delivered, and left it inactive
C28_Witness ==
    /\ ~sched.recurring
    /\ wk[1].pc = "done" /\ JobOnly(1)
    /\ wk[1].began_active /\ AnyDelivered(1)
    /\ hist.active_sends = 1
    /\ ~sched.active


\* C29: minimum spacing over a run.  For a recurring schedule with a valid
\* cadence, a dispatch that delivers and updates last_sent_at does so at
\* least one cadence (count x unit) after the value of last_sent_at left by
\* the delivering dispatch before it.
C29_MinimumSpacing ==
    ( /\ sched.recurring /\ ~MalformedCadence
      /\ wk[1].updated
      /\ wk[1].loaded_last_sent_at # NoTime )
    => sched.last_sent_at - wk[1].loaded_last_sent_at >= Cadence

-----------------------------------------------------------------------------
(* Claims about a recurring schedule evaluated for ever (SpecRecurring) *)

\* the instants a send can have been made at
SendTimes == { d * Day : d \in 0..MaxDays }

\* the evaluation last made was of the subject group, reported eligible, and
\* was made at least one cadence after the send at T
EligibleAgainAfter(T) ==
    /\ lastEval.root = "subject_group"
    /\ lastEval.err = None /\ lastEval.within
    /\ now - T >= Cadence

\* C30: no permanent blocking.  For a recurring subject-group schedule whose
\* window stays open, evaluated again and again while the clock advances,
\* every send at an instant T whose next cadence falls within the clock's
\* range is followed, unless last_sent_at is set anew before, by an
\* evaluation made once now - T >= cadence that reports eligible again.
C30_NoPermanentBlocking ==
    \A T \in SendTimes :
        (sched.last_sent_at = T /\ T + Cadence <= MaxDays * Day)
            ~> (EligibleAgainAfter(T) \/ sched.last_sent_at # T)

\* a sent schedule evaluated one cadence or more after the send, the spacing
\* check consulted and passed
C30_Witness ==
    /\ sched.last_sent_at # NoTime
    /\ EligibleAgainAfter(sched.last_sent_at)
    /\ lastEval.spacing = "passed"

====
